---------------------------- MODULE Spec2Model ----------------------------
(***************************************************************************)
(* A model of MediCore AI:                                                 *)
(*   - server/modules/llm.py: the query classifier, the prompt selector,   *)
(*     the response orchestrator (MediCoreAI) and its confidence score;    *)
(*   - client/components/chatUI.py: the Streamlit chat page (render_chat)  *)
(*     with its session transcript, and export_chat_history.               *)
(*                                                                         *)
(* Text is a sequence of one-character strings, so that lower-casing,      *)
(* substring search and formatting are computed character by character.    *)
(***************************************************************************)
EXTENDS Integers, Sequences, FiniteSets, TLC

VARIABLES
    \* --- classifier (llm.py, _detect_query_type called on its own)
    question,        \* the argument of _detect_query_type
    query_type,      \* its return value, "unset" before the call
    \* --- confidence score (llm.py, _calculate_confidence on its own)
    source_count,    \* len(result["source_documents"])
    answer_length,   \* len(result["result"])
    confidence,      \* the returned score in hundredths, -1 before the call
    \* --- orchestrator (llm.py, MediCoreAI)
    groq_api_key,    \* os.getenv("GROQ_API_KEY"): "absent", "empty" or "set"
    medicore,        \* TRUE once a MediCoreAI instance exists
    chain,           \* the RetrievalQA chain the caller holds, or NoChain
    envelope,        \* the dict process_query returned, or NoEnvelope
    raised,          \* the exception that escaped the last call, or "none"
    lastCall,        \* the last call made on the orchestrator and its inputs
    \* --- chat page (chatUI.py, st.session_state and the rendered page)
    messages,        \* st.session_state.messages
    message_count,   \* st.session_state.message_count
    chat_started,    \* st.session_state.chat_started
    screen,          \* the elements on the page when the script has ended
    flashed,         \* the elements drawn by a run that st.rerun() cut short
    download,        \* the data of the download button on the page, or NoData
    exported,        \* the last value export_chat_history returned, or NoData
    lastAction       \* the last user action on the page and its inputs

classifierVars == <<question, query_type>>
confidenceVars == <<source_count, answer_length, confidence>>
orchVars == <<groq_api_key, medicore, chain, envelope, raised, lastCall>>
chatVars == <<messages, message_count, chat_started, screen, flashed,
              download, exported, lastAction>>
vars == <<classifierVars, confidenceVars, orchVars, chatVars>>

-----------------------------------------------------------------------------
(* Text helpers: Python's str operations on sequences of characters.       *)

UpperChars == <<"A", "B", "C", "D", "E", "F", "G", "H", "I", "J", "K", "L", "M",
                "N", "O", "P", "Q", "R", "S", "T", "U", "V", "W", "X", "Y", "Z">>
LowerChars == <<"a", "b", "c", "d", "e", "f", "g", "h", "i", "j", "k", "l", "m",
                "n", "o", "p", "q", "r", "s", "t", "u", "v", "w", "x", "y", "z">>

\* str.lower() on one character
LowerChar(c) ==
    IF \E i \in 1..Len(UpperChars) : UpperChars[i] = c
    THEN LowerChars[CHOOSE i \in 1..Len(UpperChars) : UpperChars[i] = c]
    ELSE c

\* str.upper() on one character
UpperChar(c) ==
    IF \E i \in 1..Len(LowerChars) : LowerChars[i] = c
    THEN UpperChars[CHOOSE i \in 1..Len(LowerChars) : LowerChars[i] = c]
    ELSE c

\* s.lower()
Lower(s) == [i \in 1..Len(s) |-> LowerChar(s[i])]

\* s.upper()
Upper(s) == [i \in 1..Len(s) |-> UpperChar(s[i])]

\* k occurs in s at position i
OccursAt(k, s, i) ==
    /\ i >= 1
    /\ i + Len(k) - 1 <= Len(s)
    /\ SubSeq(s, i, i + Len(k) - 1) = k

\* Python's "k in s" on strings
Contains(s, k) == \E i \in 1..(Len(s) + 1) : OccursAt(k, s, i)

\* "".join(parts)
RECURSIVE Concat(_)
Concat(parts) ==
    IF parts = <<>> THEN <<>> ELSE Head(parts) \o Concat(Tail(parts))

\* sep.join(parts)
RECURSIVE Join(_, _)
Join(sep, parts) ==
    IF parts = <<>> THEN <<>>
    ELSE IF Len(parts) = 1 THEN Head(parts)
    ELSE Head(parts) \o sep \o Join(sep, Tail(parts))

\* c * n for a one-character string c
Repeat(c, n) == [i \in 1..n |-> c]

-----------------------------------------------------------------------------
(* Query classifier: MediCoreChainBuilder._detect_query_type               *)

emergency_keywords ==
    << <<"e", "m", "e", "r", "g", "e", "n", "c", "y">>,
       <<"u", "r", "g", "e", "n", "t">>,
       <<"c", "h", "e", "s", "t", " ", "p", "a", "i", "n">>,
       <<"h", "e", "a", "r", "t", " ", "a", "t", "t", "a", "c", "k">>,
       <<"s", "t", "r", "o", "k", "e">>,
       <<"b", "l", "e", "e", "d", "i", "n", "g">>,
       <<"u", "n", "c", "o", "n", "s", "c", "i", "o", "u", "s">>,
       <<"s", "e", "v", "e", "r", "e", " ", "p", "a", "i", "n">>,
       <<"d", "i", "f", "f", "i", "c", "u", "l", "t", "y", " ", "b", "r", "e", "a", "t", "h", "i", "n", "g">>,
       <<"a", "l", "l", "e", "r", "g", "i", "c", " ", "r", "e", "a", "c", "t", "i", "o", "n">>,
       <<"o", "v", "e", "r", "d", "o", "s", "e">>,
       <<"s", "u", "i", "c", "i", "d", "e">>,
       <<"t", "r", "a", "u", "m", "a">> >>

drug_keywords ==
    << <<"d", "r", "u", "g">>,
       <<"m", "e", "d", "i", "c", "a", "t", "i", "o", "n">>,
       <<"p", "r", "e", "s", "c", "r", "i", "p", "t", "i", "o", "n">>,
       <<"p", "i", "l", "l">>,
       <<"i", "n", "t", "e", "r", "a", "c", "t", "i", "o", "n">>,
       <<"s", "i", "d", "e", " ", "e", "f", "f", "e", "c", "t">>,
       <<"d", "o", "s", "a", "g", "e">>,
       <<"p", "h", "a", "r", "m", "a", "c", "y">>,
       <<"a", "n", "t", "i", "b", "i", "o", "t", "i", "c">>,
       <<"p", "a", "i", "n", "k", "i", "l", "l", "e", "r">> >>

\* any(keyword in text for keyword in keywords)
AnyKeywordIn(text, keywords) ==
    \E n \in 1..Len(keywords) : Contains(text, keywords[n])

\* faulty variant: the drug keywords are tested before the emergency keywords
DetectDrugFirst(q) ==
    LET question_lower == Lower(q)
    IN  IF AnyKeywordIn(question_lower, drug_keywords) THEN "drug"
        ELSE IF AnyKeywordIn(question_lower, emergency_keywords) THEN "emergency"
        ELSE "general"

\* faulty variant: the question is not lower-cased before the keyword tests
DetectNoLower(q) ==
    IF AnyKeywordIn(q, emergency_keywords) THEN "emergency"
    ELSE IF AnyKeywordIn(q, drug_keywords) THEN "drug"
    ELSE "general"

_detect_query_type(q) ==
    LET question_lower == Lower(q)
    IN  IF AnyKeywordIn(question_lower, emergency_keywords) THEN "emergency"
        ELSE IF AnyKeywordIn(question_lower, drug_keywords) THEN "drug"
        ELSE "general"


\* The questions the classifier is tried on: every concatenation of at most
\* MaxFrags fragments. Keywords arise inside one fragment and across two or
\* three ("chest" + " " + "PAIN", "Over" + "DOSE", "PAIN" + "killer").
Fragments ==
    { <<"c", "h", "e", "s", "t">>, <<" ">>, <<"p", "a", "i", "n">>,
      <<"P", "A", "I", "N">>, <<"O", "v", "e", "r">>, <<"D", "O", "S", "E">>,
      <<"p", "i", "l", "l">>, <<"D", "r", "u", "g">>, <<"x">>,
      <<"k", "i", "l", "l", "e", "r">> }

MaxFrags == 3

Questions ==
    { Concat(fs) : fs \in UNION { [1..n -> Fragments] : n \in 0..MaxFrags } }

ClassifierIdle ==
    /\ question = <<>>
    /\ query_type = "unset"

ClassifierInit ==
    /\ question \in Questions
    /\ query_type = "unset"

\* one call of _detect_query_type(question)
DetectQueryType ==
    /\ query_type = "unset"
    /\ query_type' = _detect_query_type(question)
    /\ UNCHANGED <<question, confidenceVars, orchVars, chatVars>>

(* What the claims mean by "contains a keyword as a case-insensitive       *)
(* substring", stated on the original question, letter by letter.          *)
SameLetterCI(a, b) ==
    \/ a = b
    \/ \E i \in 1..Len(UpperChars) : {a, b} = {UpperChars[i], LowerChars[i]}

OccursCI(k, s) ==
    \E i \in 1..(Len(s) - Len(k) + 1) :
        \A j \in 1..Len(k) : SameLetterCI(s[i + j - 1], k[j])

HasEmergencyKeyword(q) ==
    \E n \in 1..Len(emergency_keywords) : OccursCI(emergency_keywords[n], q)

HasDrugKeyword(q) ==
    \E n \in 1..Len(drug_keywords) : OccursCI(drug_keywords[n], q)

\* C1: a question that contains an emergency keyword as a case-insensitive
\* substring is classified "emergency", also when drug keywords occur in it.
C1_EmergencyFirst ==
    (query_type # "unset" /\ HasEmergencyKeyword(question))
        => query_type = "emergency"

\* C1 witness: a classified question holding an emergency and a drug keyword
C1_Witness ==
    /\ query_type = "emergency"
    /\ HasEmergencyKeyword(question)
    /\ HasDrugKeyword(question)

\* C2: without an emergency keyword the class is "drug" exactly when a drug
\* keyword occurs (case-insensitively) and "general" otherwise; the empty
\* question is "general"; the result is always one of the three classes.
C2_DrugOrGeneral ==
    query_type # "unset" =>
        /\ query_type \in {"emergency", "drug", "general"}
        /\ ~HasEmergencyKeyword(question) =>
               query_type = (IF HasDrugKeyword(question) THEN "drug" ELSE "general")
        /\ question = <<>> => query_type = "general"

\* C2 witness: a drug keyword written with a capital, and no emergency keyword
C2_Witness ==
    /\ query_type = "drug"
    /\ question = <<"D", "r", "u", "g">>
    /\ ~HasEmergencyKeyword(question)

-----------------------------------------------------------------------------
(* Python values the chain may hand back: a dict is a function on its      *)
(* keys; a value carries its type, since None has no len() and cannot be   *)
(* iterated.                                                               *)

PyNone == [t |-> "NoneType", v |-> <<>>]
PyStr(s) == [t |-> "str", v |-> s]
PyList(l) == [t |-> "list", v |-> l]

\* len(x) and iteration over x are defined
HasLen(x) == x.t \in {"str", "list"}

\* d.get(k, default)
DictGet(d, k, default) == IF k \in DOMAIN d THEN d[k] ELSE default

Min(a, b) == IF a <= b THEN a ELSE b

-----------------------------------------------------------------------------
(* Confidence score: MediCoreAI._calculate_confidence                      *)
(*                                                                         *)
(* Scores are counted in hundredths. Before rounding the value             *)
(*   min(0.95, source_count*0.2 + min(answer_length,1000)/1000*0.5 + 0.3)  *)
(* is held exactly in ten-thousandths. round(x, 2) rounds to the nearest   *)
(* hundredth; when the decimal value lies exactly between two hundredths   *)
(* (0.305, 0.315, ...) the binary double is slightly above or below it, so *)
(* the direction there is the input tieUp, which the callers leave open.   *)

\* round(confidence, 2), from ten-thousandths to hundredths
RoundHundredths(v, tieUp) ==
    LET q == v \div 100
        r == v % 100
    IN  IF r > 50 \/ (r = 50 /\ tieUp) THEN q + 1 ELSE q

\* faulty variant: the min(0.95, ...) cap is left out
ConfidenceNoCap(result, tieUp) ==
    IF HasLen(DictGet(result, "source_documents", PyList(<<>>)))
       /\ HasLen(DictGet(result, "result", PyStr(<<>>)))
    THEN RoundHundredths(
             Len(DictGet(result, "source_documents", PyList(<<>>)).v) * 2000
             + Min(Len(DictGet(result, "result", PyStr(<<>>)).v), 1000) * 5
             + 3000, tieUp)
    ELSE 50

_calculate_confidence(result, tieUp) ==
    LET docs == DictGet(result, "source_documents", PyList(<<>>))
        text == DictGet(result, "result", PyStr(<<>>))
    IN  IF HasLen(docs) /\ HasLen(text)
        THEN LET source_count_ == Len(docs.v)
                 answer_length_ == Len(text.v)
                 value == Min(9500, source_count_ * 2000
                                    + Min(answer_length_, 1000) * 5 + 3000)
             IN  RoundHundredths(value, tieUp)
        ELSE 50    \* except: return 0.5

\* The inputs of the score on its own: a chain result with n source
\* documents and an answer of m characters.
MaxSources == 5
MaxAnswerLength == 1040

ResultOf(n, m) ==
    [source_documents |-> PyList(Repeat([metadata |-> <<>>], n)),
     result |-> PyStr(Repeat("x", m))]

ConfidenceIdle ==
    /\ source_count = 0
    /\ answer_length = 0
    /\ confidence = -1

ConfidenceInit ==
    /\ source_count \in 0..MaxSources
    /\ answer_length \in 0..MaxAnswerLength
    /\ confidence = -1

\* one call of _calculate_confidence
CalculateConfidence ==
    /\ confidence = -1
    /\ \E tieUp \in BOOLEAN :
           confidence' = _calculate_confidence(
                             ResultOf(source_count, answer_length), tieUp)
    /\ UNCHANGED <<source_count, answer_length, classifierVars, orchVars, chatVars>>

\* C5: the score lies in [0, 0.95], does not decrease when one more source
\* is found (answer length fixed) nor when the answer grows by one character
\* (source count fixed), and stays the same from 1000 characters on.
C5_ConfidenceBoundedMonotone ==
    confidence # -1 =>
        /\ 0 <= confidence /\ confidence <= 95
        /\ \A tieUp \in BOOLEAN :
            /\ confidence <= _calculate_confidence(
                                 ResultOf(source_count + 1, answer_length), tieUp)
            /\ confidence <= _calculate_confidence(
                                 ResultOf(source_count, answer_length + 1), tieUp)
            /\ answer_length >= 1000 =>
                   confidence = _calculate_confidence(
                                    ResultOf(source_count, answer_length + 1), tieUp)

\* C5 witness: a score computed for an answer longer than 1000 characters
\* with sources, where the cap applies
C5_Witness ==
    /\ confidence = 95
    /\ source_count >= 1
    /\ answer_length > 1000

-----------------------------------------------------------------------------
(* Prompt selector: MediCorePrompts and _get_prompt_by_type                *)

\* the names in input_variables=["context", "question"]
SlotContext == <<"c", "o", "n", "t", "e", "x", "t">>
SlotQuestion == <<"q", "u", "e", "s", "t", "i", "o", "n">>

\* Each template is its title line and the lines that carry a slot, as the
\* source writes them; the guidance prose between them, which holds no
\* brace, is left out. An emoji is one character.

\* the template of get_main_prompt
get_main_prompt ==
    [template |->
          <<"EMOJI_DNA", " ", "*", "*", "M", "e", "d", "i", "C", "o", "r",
            "e", " ", "A", "I", " ", "-", " ", "A", "d", "v", "a", "n", "c",
            "e", "d", " ", "H", "e", "a", "l", "t", "h", "c", "a", "r", "e",
            " ", "I", "n", "t", "e", "l", "l", "i", "g", "e", "n", "c", "e",
            "*", "*", "\n">>
          \o <<"EMOJI_BOOKS", " ", "*", "*", "M", "e", "d", "i", "c", "a", "l",
            " ", "K", "n", "o", "w", "l", "e", "d", "g", "e", " ", "C", "o",
            "n", "t", "e", "x", "t", "*", "*", ":", "\n", "{", "c", "o", "n",
            "t", "e", "x", "t", "}", "\n", "\n", "EMOJI_MAGNIFIER", " ", "*",
            "*", "P", "a", "t", "i", "e", "n", "t", "/", "U", "s", "e", "r",
            " ", "I", "n", "q", "u", "i", "r", "y", "*", "*", ":", "\n", "{",
            "q", "u", "e", "s", "t", "i", "o", "n", "}", "\n">>,
     input_variables |-> <<SlotContext, SlotQuestion>>]

\* the template of get_emergency_prompt; it names the context twice
get_emergency_prompt ==
    [template |->
          <<"EMOJI_SIREN", " ", "*", "*", "E", "M", "E", "R", "G", "E", "N",
            "C", "Y", " ", "P", "R", "O", "T", "O", "C", "O", "L", " ", "A",
            "C", "T", "I", "V", "A", "T", "E", "D", "*", "*", "\n">>
          \o <<"C", "o", "n", "t", "e", "x", "t", ":", " ", "{", "c", "o", "n",
            "t", "e", "x", "t", "}", "\n", "E", "m", "e", "r", "g", "e", "n",
            "c", "y", " ", "Q", "u", "e", "r", "y", ":", " ", "{", "q", "u",
            "e", "s", "t", "i", "o", "n", "}", "\n">>
          \o <<"EMOJI_CLIPBOARD", " ", "*", "*", "B", "a", "s", "e", "d", " ",
            "o", "n", " ", "A", "v", "a", "i", "l", "a", "b", "l", "e", " ",
            "I", "n", "f", "o", "r", "m", "a", "t", "i", "o", "n", "*", "*",
            ":", "\n", "{", "c", "o", "n", "t", "e", "x", "t", "}", "\n">>,
     input_variables |-> <<SlotContext, SlotQuestion>>]

\* the template of get_drug_interaction_prompt
get_drug_interaction_prompt ==
    [template |->
          <<"EMOJI_PILL", " ", "*", "*", "M", "e", "d", "i", "C", "o", "r",
            "e", " ", "A", "I", " ", "-", " ", "P", "h", "a", "r", "m", "a",
            "c", "e", "u", "t", "i", "c", "a", "l", " ", "I", "n", "t", "e",
            "l", "l", "i", "g", "e", "n", "c", "e", " ", "M", "o", "d", "u",
            "l", "e", "*", "*", "\n">>
          \o <<"*", "*", "P", "h", "a", "r", "m", "a", "c", "e", "u", "t", "i",
            "c", "a", "l", " ", "C", "o", "n", "t", "e", "x", "t", "*", "*",
            ":", " ", "{", "c", "o", "n", "t", "e", "x", "t", "}", "\n", "*",
            "*", "D", "r", "u", "g", " ", "I", "n", "q", "u", "i", "r", "y",
            "*", "*", ":", " ", "{", "q", "u", "e", "s", "t", "i", "o", "n",
            "}", "\n">>,
     input_variables |-> <<SlotContext, SlotQuestion>>]

\* the placeholders a template text names: every run of characters between
\* an opening brace and the next closing brace
SlotsIn(template) ==
    { SubSeq(template, i + 1, j - 1) :
        <<i, j>> \in { <<a, b>> \in (1..Len(template)) \X (1..Len(template)) :
                         /\ a < b
                         /\ template[a] = "{"
                         /\ template[b] = "}"
                         /\ \A k \in (a + 1)..(b - 1) :
                                template[k] \notin {"{", "}"} } }

\* faulty variant: a category outside the map gets the emergency template
PromptByTypeDefaultEmergency(qt) ==
    CASE qt = "emergency" -> get_emergency_prompt
      [] qt = "drug" -> get_drug_interaction_prompt
      [] qt = "general" -> get_main_prompt
      [] OTHER -> get_emergency_prompt

\* prompt_map.get(query_type, self.prompts.get_main_prompt())
_get_prompt_by_type(qt) ==
    CASE qt = "emergency" -> get_emergency_prompt
      [] qt = "drug" -> get_drug_interaction_prompt
      [] qt = "general" -> get_main_prompt
      [] OTHER -> get_main_prompt

-----------------------------------------------------------------------------
(* Response orchestrator: MediCoreConfig, create_retrieval_chain,          *)
(* MediCoreAI.get_chain, MediCoreAI.process_query, get_llm_chain.          *)
(* A call returns [ret, exc]: its return value, or the exception that      *)
(* leaves it. The wall-clock fields of the envelope (processing_time,      *)
(* timestamp, session_duration) are left out.                              *)

NoChain == [built |-> FALSE]
NoEnvelope == [returned |-> FALSE]

\* faulty variant: only an unset key is refused, an empty one is accepted
MediCoreConfigUnsetOnly(key, numbers_ok) ==
    IF ~numbers_ok THEN "ValueError"
    ELSE IF key = "absent" THEN "ValueError" ELSE "none"

\* MediCoreConfig.__init__: float() and int() on LLM_TEMPERATURE, MAX_TOKENS
\* and TOP_P raise ValueError on a setting that is not a number (numbers_ok
\* is FALSE); then "if not self.groq_api_key: raise ValueError".
MediCoreConfig(key, numbers_ok) ==
    IF ~numbers_ok THEN "ValueError"
    ELSE IF key \in {"absent", "empty"} THEN "ValueError" ELSE "none"

\* create_retrieval_chain: build is what the library constructors do,
\* "ok", "llm_error" (ChatGroq raises) or "chain_error" (from_chain_type
\* raises); both failures are logged and raised again.
create_retrieval_chain(qt, build) ==
    IF build = "llm_error" THEN [ret |-> NoChain, exc |-> "LLMInitError"]
    ELSE IF build = "chain_error" THEN [ret |-> NoChain, exc |-> "ChainBuildError"]
    ELSE [ret |-> [built |-> TRUE, prompt |-> _get_prompt_by_type(qt),
                   query_type |-> qt],
          exc |-> "none"]

\* "if question:" on None or a string
Truthy(q) == q.t = "str" /\ q.v # <<>>

\* MediCoreAI.get_chain(retriever, question=None)
get_chain(q, build) ==
    LET qt == IF Truthy(q) THEN _detect_query_type(q.v) ELSE "general"
    IN  create_retrieval_chain(qt, build)

ErrorMessage ==
    <<"I", " ", "a", "p", "o", "l", "o", "g", "i", "z", "e", ",", " ", "b",
    "u", "t", " ", "I", " ", "e", "n", "c", "o", "u", "n", "t", "e", "r",
    "e", "d", " ", "a", "n", " ", "e", "r", "r", "o", "r", " ", "p", "r",
    "o", "c", "e", "s", "s", "i", "n", "g", " ", "y", "o", "u", "r", " ",
    "q", "u", "e", "r", "y", ".", " ", "P", "l", "e", "a", "s", "e", " ",
    "t", "r", "y", " ", "a", "g", "a", "i", "n", " ", "o", "r", " ", "c",
    "o", "n", "t", "a", "c", "t", " ", "s", "u", "p", "p", "o", "r", "t",
    " ", "i", "f", " ", "t", "h", "e", " ", "i", "s", "s", "u", "e", " ",
    "p", "e", "r", "s", "i", "s", "t", "s", ".">>

ErrorEnvelope(detail) ==
    [answer |-> PyStr(ErrorMessage), sources |-> <<>>, query_type |-> "error",
     confidence |-> 0, error |-> detail]

Unknown == <<"U", "n", "k", "n", "o", "w", "n">>

\* [doc.metadata.get("source", "Unknown") for doc in docs]
SourcesOf(docs) ==
    [i \in 1..Len(docs) |-> DictGet(docs[i].metadata, "source", Unknown)]

\* faulty variant: process_query without its try/except
ProcessQueryNoCatch(q, run, tieUp) ==
    IF q.t # "str" THEN [ret |-> NoEnvelope, exc |-> "TypeError"]
    ELSE IF run.raises THEN [ret |-> NoEnvelope, exc |-> "ChainError"]
    ELSE IF ~HasLen(DictGet(run.result, "source_documents", PyList(<<>>)))
    THEN [ret |-> NoEnvelope, exc |-> "TypeError"]
    ELSE [ret |-> [answer |-> DictGet(run.result, "result", PyStr(<<>>)),
                   sources |-> SourcesOf(
                       DictGet(run.result, "source_documents", PyList(<<>>)).v),
                   query_type |-> _detect_query_type(q.v),
                   confidence |-> _calculate_confidence(run.result, tieUp)],
          exc |-> "none"]

\* MediCoreAI.process_query(chain, question). run is what calling the chain
\* does: [raises |-> TRUE], or [raises |-> FALSE, result |-> the dict].
process_query(q, run, tieUp) ==
    IF q.t # "str"                       \* question[:100] on a non-string
    THEN [ret |-> ErrorEnvelope("TypeError"), exc |-> "none"]
    ELSE
      LET qt == _detect_query_type(q.v)
      IN  IF run.raises                  \* result = chain({"query": question})
          THEN [ret |-> ErrorEnvelope("ChainError"), exc |-> "none"]
          ELSE
            LET result == run.result
                docs == DictGet(result, "source_documents", PyList(<<>>))
            IN  IF ~HasLen(docs)         \* "for doc in None"
                THEN [ret |-> ErrorEnvelope("TypeError"), exc |-> "none"]
                ELSE [ret |-> [answer |-> DictGet(result, "result", PyStr(<<>>)),
                               sources |-> SourcesOf(docs.v),
                               query_type |-> qt,
                               confidence |-> _calculate_confidence(result, tieUp)],
                      exc |-> "none"]

\* The inputs the orchestrator is driven with.
OrchQuestions ==
    { PyNone, PyStr(<<>>),
      PyStr(<<"C", "h", "e", "s", "t", " ", "P", "a", "i", "n">>),
      PyStr(<<"p", "i", "l", "l">>) }

BuildOutcomes == {"ok", "llm_error", "chain_error"}

DocA == [metadata |-> [source |-> <<"a", ".", "p", "d", "f">>]]
DocNoSource == [metadata |-> <<>>]
Docs == {DocA, DocNoSource}

MaxDocs == 1

DocLists == UNION { [1..n -> Docs] : n \in 0..MaxDocs }

\* an answer of 10 characters, where the score's rounding is a tie
OrchAnswers == { Repeat("x", 10) }

\* a dict with the keys in ks, among "result" and "source_documents"
MkResult(ks, r, d) == [k \in ks |-> IF k = "result" THEN r ELSE d]

ChainResults ==
    { MkResult(ks, r, d) :
        ks \in SUBSET {"result", "source_documents"},
        r \in {PyNone} \cup { PyStr(a) : a \in OrchAnswers },
        d \in {PyNone} \cup { PyList(l) : l \in DocLists } }

ChainRuns ==
    { [raises |-> TRUE, result |-> <<>>] }
        \cup { [raises |-> FALSE, result |-> res] : res \in ChainResults }

\* Which step of the orchestration fails in process_query on these inputs:
\* 1 classifying, 3 executing the chain, 4 computing the confidence,
\* 5 packaging the sources; 0 when none does.
FailedStep(q, run) ==
    IF q.t # "str" THEN 1
    ELSE IF run.raises THEN 3
    ELSE IF ~HasLen(DictGet(run.result, "source_documents", PyList(<<>>))) THEN 5
    ELSE IF ~HasLen(DictGet(run.result, "result", PyStr(<<>>))) THEN 4
    ELSE 0

NoCall == [op |-> "none", question |-> PyNone, failed_step |-> 0]

OrchIdle ==
    /\ groq_api_key = "absent"
    /\ medicore = FALSE
    /\ chain = NoChain
    /\ envelope = NoEnvelope
    /\ raised = "none"
    /\ lastCall = NoCall

OrchInit ==
    /\ groq_api_key \in {"absent", "empty", "set"}
    /\ medicore = FALSE
    /\ chain = NoChain
    /\ envelope = NoEnvelope
    /\ raised = "none"
    /\ lastCall = NoCall

\* The chain a caller holds, with the call that returned it and the question
\* that call was given.
Obtained(c, op, q) ==
    [built |-> c.built, prompt |-> c.prompt, query_type |-> c.query_type,
     obtained_by |-> op, question |-> q]

\* MediCoreAI() or create_medicore_ai()
NewMediCoreAI ==
    /\ \E numbers_ok \in BOOLEAN :
         LET c == MediCoreConfig(groq_api_key, numbers_ok)
         IN  /\ raised' = c
             /\ medicore' = (medicore \/ c = "none")
    /\ lastCall' = [op |-> "MediCoreAI", question |-> PyNone, failed_step |-> 0]
    /\ UNCHANGED <<groq_api_key, chain, envelope>>
    /\ UNCHANGED <<classifierVars, confidenceVars, chatVars>>

\* chain = medicore.get_chain(retriever, question)
GetChain ==
    /\ medicore
    /\ \E q \in OrchQuestions, build \in BuildOutcomes :
         LET r == get_chain(q, build)
         IN  /\ chain' = (IF r.exc = "none" THEN Obtained(r.ret, "get_chain", q)
                          ELSE chain)
             /\ raised' = r.exc
             /\ lastCall' = [op |-> "get_chain", question |-> q,
                             failed_step |-> IF r.exc = "none" THEN 0 ELSE 2]
    /\ UNCHANGED <<groq_api_key, medicore, envelope>>
    /\ UNCHANGED <<classifierVars, confidenceVars, chatVars>>

\* chain = get_llm_chain(retriever): a MediCoreAI of its own, no question
GetLlmChain ==
    /\ \E build \in BuildOutcomes, numbers_ok \in BOOLEAN :
         LET c == MediCoreConfig(groq_api_key, numbers_ok)
             r == IF c = "none" THEN get_chain(PyNone, build)
                  ELSE [ret |-> NoChain, exc |-> c]
         IN  /\ chain' = (IF r.exc = "none"
                          THEN Obtained(r.ret, "get_llm_chain", PyNone)
                          ELSE chain)
             /\ raised' = r.exc
             /\ lastCall' = [op |-> "get_llm_chain", question |-> PyNone,
                             failed_step |-> IF c = "none" /\ r.exc # "none"
                                             THEN 2 ELSE 0]
    /\ UNCHANGED <<groq_api_key, medicore, envelope>>
    /\ UNCHANGED <<classifierVars, confidenceVars, chatVars>>

\* response = medicore.process_query(chain, question)
ProcessQuery ==
    /\ medicore
    /\ chain # NoChain
    /\ \E q \in OrchQuestions, run \in ChainRuns, tieUp \in BOOLEAN :
         LET r == process_query(q, run, tieUp)
         IN  /\ envelope' = r.ret
             /\ raised' = r.exc
             /\ lastCall' = [op |-> "process_query", question |-> q,
                             failed_step |-> FailedStep(q, run)]
    /\ UNCHANGED <<groq_api_key, medicore, chain>>
    /\ UNCHANGED <<classifierVars, confidenceVars, chatVars>>

\* The category values create_retrieval_chain is called with directly: the
\* three keys of prompt_map and values outside it.
Categories ==
    {"emergency", "drug", "general", "error", "", "EMERGENCY", "Drug", "symptom"}

\* chain = medicore.chain_builder.create_retrieval_chain(retriever, query_type)
CreateRetrievalChain ==
    /\ medicore
    /\ \E qt \in Categories, build \in BuildOutcomes :
         LET r == create_retrieval_chain(qt, build)
         IN  /\ chain' = (IF r.exc = "none"
                          THEN Obtained(r.ret, "create_retrieval_chain", PyNone)
                          ELSE chain)
             /\ raised' = r.exc
             /\ lastCall' = [op |-> "create_retrieval_chain", question |-> PyNone,
                             failed_step |-> IF r.exc = "none" THEN 0 ELSE 2,
                             query_type |-> qt]
    /\ UNCHANGED <<groq_api_key, medicore, envelope>>
    /\ UNCHANGED <<classifierVars, confidenceVars, chatVars>>

\* the error envelope of process_query, whatever the failure detail
IsErrorEnvelope(e) ==
    /\ e # NoEnvelope
    /\ e.query_type = "error"
    /\ e.confidence = 0
    /\ e.sources = <<>>
    /\ e.answer = PyStr(ErrorMessage)
    /\ "error" \in DOMAIN e

\* C3: when executing the chain raises inside process_query, the returned
\* envelope has confidence 0, no sources, query_type "error" and a non-empty
\* answer, and no exception leaves process_query.
C3_ChainFailureEnvelope ==
    (lastCall.op = "process_query" /\ lastCall.failed_step = 3) =>
        /\ raised = "none"
        /\ envelope # NoEnvelope
        /\ envelope.confidence = 0
        /\ envelope.sources = <<>>
        /\ envelope.query_type = "error"
        /\ envelope.answer.t = "str"
        /\ Len(envelope.answer.v) > 0

\* C3 witness: process_query has returned after its chain raised
C3_Witness ==
    /\ lastCall.op = "process_query"
    /\ lastCall.failed_step = 3
    /\ lastCall.question.t = "str"
    /\ envelope # NoEnvelope

\* C4 as claimed: whichever of the steps 1-4 fails, the caller gets the
\* error envelope, with the failure detail, and no exception.
C4_AnyStepFailureEnvelope ==
    lastCall.failed_step \in 1..4 =>
        /\ raised = "none"
        /\ IsErrorEnvelope(envelope)

-----------------------------------------------------------------------------
(* Chat page: render_chat and export_chat_history (chatUI.py).             *)
(* One user action runs the script once; st.rerun() ends that run and runs *)
(* the script again, and only what the last run drew stays on the page.    *)
(* Styling and the HH:MM stamps inside the bubbles are left out.           *)

RoleUser == <<"u", "s", "e", "r">>
RoleAssistant == <<"a", "s", "s", "i", "s", "t", "a", "n", "t">>

NoData == [has |-> FALSE]

\* datetime.now(): the fields of one clock reading, as digits
Clock ==
    { [Y |-> <<"2", "0", "2", "6">>, m |-> <<"0", "1">>, d |-> <<"0", "2">>,
       H |-> <<"0", "3">>, M |-> <<"0", "4">>, S |-> <<"0", "5">>],
      [Y |-> <<"2", "0", "2", "6">>, m |-> <<"1", "1">>, d |-> <<"0", "6">>,
       H |-> <<"2", "3">>, M |-> <<"5", "9">>, S |-> <<"5", "9">>] }

\* now.strftime('%Y-%m-%d %H:%M:%S')
StrftimeDashed(now) ==
    now.Y \o <<"-">> \o now.m \o <<"-">> \o now.d \o <<" ">>
        \o now.H \o <<":">> \o now.M \o <<":">> \o now.S

\* now.strftime('%Y%m%d_%H%M%S')
StrftimeCompact(now) ==
    now.Y \o now.m \o now.d \o <<"_">> \o now.H \o now.M \o now.S

\* the sidebar: st.metric("Messages", st.session_state.message_count)
Sidebar(count) == << [kind |-> "metric", value |-> count] >>

Welcome == [kind |-> "welcome"]

\* one turn of the history loop: the bubble, then its sources if any
RenderTurn(msg) ==
    IF msg.role = RoleUser
    THEN << [kind |-> "user", content |-> msg.content] >>
    ELSE << [kind |-> "assistant", content |-> msg.content] >>
           \o (IF "sources" \in DOMAIN msg /\ msg.sources # <<>>
               THEN << [kind |-> "sources", sources |-> msg.sources] >>
               ELSE <<>>)

\* "for i, msg in enumerate(st.session_state.messages)"
RenderHistory(msgs) == Concat([i \in 1..Len(msgs) |-> RenderTurn(msgs[i])])

\* what a run of the script draws up to the chat input
DrawPage(msgs, count, started) ==
    Sidebar(count)
        \o (IF ~started /\ Len(msgs) = 0 THEN <<Welcome>> ELSE <<>>)
        \o RenderHistory(msgs)

\* faulty variant: the user turn replaces the transcript instead of extending it
AssignUserTurn(msgs, user_input) ==
    << [role |-> RoleUser, content |-> user_input] >>

\* st.session_state.messages.append({"role": "user", "content": user_input})
AppendUserTurn(msgs, user_input) ==
    Append(msgs, [role |-> RoleUser, content |-> user_input])

\* faulty variant: the assistant turn is stored without the returned sources
AppendAssistantTurnNoSources(msgs, answer, sources) ==
    Append(msgs, [role |-> RoleAssistant, content |-> answer, sources |-> <<>>])

\* st.session_state.messages.append({"role": "assistant", ...})
AppendAssistantTurn(msgs, answer, sources) ==
    Append(msgs, [role |-> RoleAssistant, content |-> answer, sources |-> sources])

\* faulty variant: the assistant turn is appended, message_count is not raised
HandleResponseCountKept(msgs, count, o) ==
    IF o.raises
    THEN [messages |-> msgs, message_count |-> count,
          drawn |-> << [kind |-> "error", text |-> o.text],
                       [kind |-> "banner", text |-> "Network Issue!"] >>]
    ELSE IF o.status_code = 200
    THEN IF "response" \notin DOMAIN o.json          \* data["response"]: KeyError
         THEN [messages |-> msgs, message_count |-> count,
               drawn |-> << [kind |-> "error", text |-> <<"K", "e", "y", "E", "r", "r", "o", "r">>],
                            [kind |-> "banner", text |-> "Network Issue!"] >>]
         ELSE LET answer == o.json["response"]
                  sources == DictGet(o.json, "sources", <<>>)
              IN  [messages |-> AppendAssistantTurn(msgs, answer, sources),
                   message_count |-> count,
                   drawn |-> << [kind |-> "assistant", content |-> answer] >>
                             \o (IF sources # <<>>
                                 THEN << [kind |-> "sources", sources |-> sources] >>
                                 ELSE <<>>)]
    ELSE [messages |-> msgs, message_count |-> count,
          drawn |-> << [kind |-> "error", text |-> o.text],
                       [kind |-> "banner", text |-> "Something went wrong!"] >>]

\* The try block around ask_question(user_input). o is what the request
\* does: o.raises, or a response with o.status_code, o.json (the body as a
\* dict) and o.text. Returns the transcript and counter after the block and
\* what the block drew.
HandleResponse(msgs, count, o) ==
    IF o.raises
    THEN [messages |-> msgs, message_count |-> count,
          drawn |-> << [kind |-> "error", text |-> o.text],
                       [kind |-> "banner", text |-> "Network Issue!"] >>]
    ELSE IF o.status_code = 200
    THEN IF "response" \notin DOMAIN o.json          \* data["response"]: KeyError
         THEN [messages |-> msgs, message_count |-> count,
               drawn |-> << [kind |-> "error", text |-> <<"K", "e", "y", "E", "r", "r", "o", "r">>],
                            [kind |-> "banner", text |-> "Network Issue!"] >>]
         ELSE LET answer == o.json["response"]
                  sources == DictGet(o.json, "sources", <<>>)
              IN  [messages |-> AppendAssistantTurn(msgs, answer, sources),
                   message_count |-> count + 1,
                   drawn |-> << [kind |-> "assistant", content |-> answer] >>
                             \o (IF sources # <<>>
                                 THEN << [kind |-> "sources", sources |-> sources] >>
                                 ELSE <<>>)]
    ELSE [messages |-> msgs, message_count |-> count,
          drawn |-> << [kind |-> "error", text |-> o.text],
                       [kind |-> "banner", text |-> "Something went wrong!"] >>]

ExportTitle ==
    <<"M", "e", "d", "i", "C", "o", "r", "e", " ", "A", "I", " ", "C", "h",
      "a", "t", " ", "E", "x", "p", "o", "r", "t", " ", "-", " ">>

NoHistoryText ==
    <<"N", "o", " ", "c", "h", "a", "t", " ", "h", "i", "s", "t", "o", "r",
      "y", " ", "t", "o", " ", "e", "x", "p", "o", "r", "t">>

\* the first two lines export_chat_history writes
ExportHeader(now) ==
    ExportTitle \o StrftimeDashed(now) \o <<"\n">>
        \o Repeat("=", 50) \o <<"\n", "\n">>

\* faulty variant: the role label is written, the content is not
ExportTurnNoContent(msg) ==
    << (IF msg.role = RoleUser THEN "EMOJI_OFFICE_WORKER" ELSE "EMOJI_STETHOSCOPE"),
       " " >> \o Upper(msg.role) \o <<":", "\n", "\n", "\n">>
        \o Repeat("-", 30) \o <<"\n">>

\* the body of the loop of export_chat_history; an emoji is one character
ExportTurn(msg) ==
    LET role_emoji == IF msg.role = RoleUser THEN "EMOJI_OFFICE_WORKER"
                      ELSE "EMOJI_STETHOSCOPE"
    IN  <<role_emoji, " ">> \o Upper(msg.role) \o <<":", "\n">>
            \o msg.content \o <<"\n", "\n">>
            \o (IF "sources" \in DOMAIN msg /\ msg.sources # <<>>
                THEN <<"EMOJI_PAGE", " ", "S", "o", "u", "r", "c", "e", "s", ":", " ">>
                         \o Join(<<",", " ">>, msg.sources) \o <<"\n", "\n">>
                ELSE <<>>)
            \o Repeat("-", 30) \o <<"\n">>

\* faulty variant: the function formats an empty transcript like any other
ExportNoEmptyCheck(msgs, now) ==
    ExportHeader(now) \o Concat([i \in 1..Len(msgs) |-> ExportTurn(msgs[i])])

export_chat_history(msgs, now) ==
    IF Len(msgs) = 0 THEN NoHistoryText
    ELSE ExportHeader(now) \o Concat([i \in 1..Len(msgs) |-> ExportTurn(msgs[i])])

\* the Export Chat button: "\n".join(f"{msg['role'].upper()}: {msg['content']}")
chat_export(msgs) ==
    Join(<<"\n">>, [i \in 1..Len(msgs) |->
                       Upper(msgs[i].role) \o <<":", " ">> \o msgs[i].content])

\* The inputs the page is driven with.
UserInputs == { <<"h", "i">>, <<"p", "i", "l", "l", "?">> }
Answers == { <<"r", "e", "s", "t">>, <<"o", "k">> }
SourceLists ==
    { <<>>, << <<"a", ".", "p", "d", "f">>, <<"b", ".", "p", "d", "f">> >> }

\* the JSON body of a response: a dict with the keys in ks
MkBody(ks, a, srcs) == [k \in ks |-> IF k = "response" THEN a ELSE srcs]

Bodies ==
    { MkBody(ks, a, srcs) :
        ks \in SUBSET {"response", "sources"}, a \in Answers, srcs \in SourceLists }

BackendOutcomes ==
    { [raises |-> FALSE, status_code |-> 200, json |-> b, text |-> <<>>] : b \in Bodies }
      \cup { [raises |-> FALSE, status_code |-> 500, json |-> <<>>,
              text |-> <<"d", "o", "w", "n">>],
             [raises |-> TRUE, status_code |-> 0, json |-> <<>>,
              text |-> <<"t", "i", "m", "e", "o", "u", "t">>] }

MaxTurns == 4

\* chat_started after a run: set on the run that shows the welcome message
StartedAfter(msgs, started) ==
    IF ~started /\ Len(msgs) = 0 THEN TRUE ELSE started

ChatIdle ==
    /\ messages = <<>>
    /\ message_count = 0
    /\ chat_started = FALSE
    /\ screen = <<>>
    /\ flashed = <<>>
    /\ download = NoData
    /\ exported = NoData
    /\ lastAction = [op |-> "none"]

ChatInit == ChatIdle

\* a run of the script with no widget pressed: the first load of the page,
\* or a re-render
LoadPage ==
    /\ screen' = DrawPage(messages, message_count, chat_started)
    /\ chat_started' = StartedAfter(messages, chat_started)
    /\ flashed' = <<>>
    /\ download' = NoData
    /\ exported' = NoData
    /\ lastAction' = [op |-> "rerun"]
    /\ UNCHANGED <<messages, message_count>>
    /\ UNCHANGED <<classifierVars, confidenceVars, orchVars>>

\* the Clear Chat button, and the run st.rerun() starts
ClearChat ==
    /\ chat_started
    /\ messages' = <<>>
    /\ message_count' = 0
    /\ flashed' = Sidebar(message_count)
    /\ screen' = DrawPage(<<>>, 0, chat_started)
    /\ chat_started' = StartedAfter(<<>>, chat_started)
    /\ download' = NoData
    /\ exported' = NoData
    /\ lastAction' = [op |-> "clear"]
    /\ UNCHANGED <<classifierVars, confidenceVars, orchVars>>

\* the Export Chat button: a download button when there are messages
ExportChat ==
    /\ chat_started
    /\ \E now \in Clock :
         /\ download' =
              (IF Len(messages) > 0
               THEN [has |-> TRUE, data |-> chat_export(messages),
                     file_name |-> <<"m", "e", "d", "i", "c", "o", "r", "e", "_",
                                     "c", "h", "a", "t", "_">>
                                   \o StrftimeCompact(now) \o <<".", "t", "x", "t">>]
               ELSE NoData)
         /\ lastAction' = [op |-> "export", now |-> now]
    /\ screen' = DrawPage(messages, message_count, chat_started)
    /\ chat_started' = StartedAfter(messages, chat_started)
    /\ flashed' = <<>>
    /\ exported' = NoData
    /\ UNCHANGED <<messages, message_count>>
    /\ UNCHANGED <<classifierVars, confidenceVars, orchVars>>

\* a question typed into st.chat_input: the run that handles it, and the
\* run its closing st.rerun() starts
SubmitInput ==
    /\ chat_started
    /\ Len(messages) + 2 <= MaxTurns
    /\ \E user_input \in UserInputs, o \in BackendOutcomes :
         LET r == HandleResponse(AppendUserTurn(messages, user_input),
                                 message_count + 1, o)
         IN  /\ messages' = r.messages
             /\ message_count' = r.message_count
             /\ flashed' = DrawPage(messages, message_count, chat_started)
                             \o << [kind |-> "user", content |-> user_input] >>
                             \o r.drawn
             /\ screen' = DrawPage(r.messages, r.message_count, chat_started)
             /\ lastAction' = [op |-> "input", user_input |-> user_input,
                               outcome |-> o]
    /\ chat_started' = chat_started
    /\ download' = NoData
    /\ exported' = NoData
    /\ UNCHANGED <<classifierVars, confidenceVars, orchVars>>

\* a call of export_chat_history() on the session
ExportHistory ==
    /\ chat_started
    /\ \E now \in Clock :
         /\ exported' = [has |-> TRUE, text |-> export_chat_history(messages, now)]
         /\ lastAction' = [op |-> "export_history", now |-> now]
    /\ UNCHANGED <<messages, message_count, chat_started, screen, flashed, download>>
    /\ UNCHANGED <<classifierVars, confidenceVars, orchVars>>

-----------------------------------------------------------------------------
(* Specifications: one per component, the other components at rest.        *)

Init ==
    /\ ChatInit
    /\ ClassifierIdle /\ ConfidenceIdle /\ OrchIdle

Next ==
    \/ LoadPage
    \/ ClearChat
    \/ ExportChat
    \/ SubmitInput
    \/ ExportHistory

Spec == Init /\ [][Next]_vars

InitClassifier ==
    /\ ClassifierInit
    /\ ConfidenceIdle /\ OrchIdle /\ ChatIdle

NextClassifier == DetectQueryType

SpecClassifier == InitClassifier /\ [][NextClassifier]_vars

InitConfidence ==
    /\ ConfidenceInit
    /\ ClassifierIdle /\ OrchIdle /\ ChatIdle

NextConfidence == CalculateConfidence

SpecConfidence == InitConfidence /\ [][NextConfidence]_vars

InitOrchestrator ==
    /\ OrchInit
    /\ ClassifierIdle /\ ConfidenceIdle /\ ChatIdle

NextOrchestrator ==
    \/ NewMediCoreAI
    \/ GetChain
    \/ GetLlmChain
    \/ ProcessQuery

SpecOrchestrator == InitOrchestrator /\ [][NextOrchestrator]_vars

\* The chain builder called directly, with any category value.
InitSelector ==
    /\ OrchInit
    /\ ClassifierIdle /\ ConfidenceIdle /\ ChatIdle

NextSelector ==
    \/ NewMediCoreAI
    \/ CreateRetrievalChain

SpecSelector == InitSelector /\ [][NextSelector]_vars

-----------------------------------------------------------------------------
(* Claims about the chat page, checked under Spec.                         *)

\* the request of the last input failed: it raised, or its status is not 200
LastInputFailed ==
    /\ lastAction.op = "input"
    /\ (lastAction.outcome.raises \/ lastAction.outcome.status_code # 200)

\* an error is on the page, or the transcript holds a turn that is neither a
\* user turn nor an assistant turn
ErrorVisible ==
    \/ \E i \in 1..Len(screen) : screen[i].kind \in {"error", "banner"}
    \/ \E i \in 1..Len(messages) : messages[i].role \notin {RoleUser, RoleAssistant}

\* C6 as claimed: after an input whose request failed, once the page has been
\* drawn again, the transcript still holds the user's turn and an error
\* turn is visible.
C6_FailedRequestShowsError ==
    LastInputFailed =>
        /\ Len(messages) > 0
        /\ \E i \in 1..Len(messages) :
               messages[i] = [role |-> RoleUser, content |-> lastAction.user_input]
        /\ ErrorVisible

\* the last input got status 200
LastInputStatus200(a) ==
    /\ a.op = "input"
    /\ ~a.outcome.raises
    /\ a.outcome.status_code = 200

\* the step appended the user turn of input a and then the assistant turn
\* holding the answer and the sources of a's response, and nothing else
AppendedUserThenAssistant(a, before, after) ==
    /\ Len(after) = Len(before) + 2
    /\ SubSeq(after, 1, Len(before)) = before
    /\ after[Len(before) + 1] = [role |-> RoleUser, content |-> a.user_input]
    /\ "response" \in DOMAIN a.outcome.json
    /\ after[Len(before) + 2] =
           [role |-> RoleAssistant,
            content |-> a.outcome.json["response"],
            sources |-> IF "sources" \in DOMAIN a.outcome.json
                        THEN a.outcome.json["sources"] ELSE <<>>]

\* C7 as claimed: every input answered with status 200 appends the user turn
\* and then the assistant turn with the answer and the sources.
C7_Status200AppendsTwo ==
    [][LastInputStatus200(lastAction')
           => AppendedUserThenAssistant(lastAction', messages, messages')]_vars

\* C7 amended: every input answered with status 200 and a body that has a
\* "response" field appends exactly the user turn and then the assistant
\* turn with the answer and the sources (none when the body has no "sources").
C7_Status200WithResponseAppendsTwo ==
    [][(LastInputStatus200(lastAction')
            /\ "response" \in DOMAIN lastAction'.outcome.json)
           => AppendedUserThenAssistant(lastAction', messages, messages')]_vars

\* C7 witness: a second exchange was appended from a body without "sources"
C7_Witness ==
    /\ LastInputStatus200(lastAction)
    /\ DOMAIN lastAction.outcome.json = {"response"}
    /\ Len(messages) = 4
    /\ messages[4] = [role |-> RoleAssistant,
                      content |-> lastAction.outcome.json["response"],
                      sources |-> <<>>]

IsPrefix(s, t) == Len(s) <= Len(t) /\ SubSeq(t, 1, Len(s)) = s

\* C8: every step leaves the transcript as it is or extends it at the end,
\* except Clear Chat, which empties it.
C8_TranscriptAppendOnly ==
    [][\/ IsPrefix(messages, messages')
       \/ (lastAction'.op = "clear" /\ messages' = <<>>)]_vars

\* C8 witness: an input was appended behind earlier turns
C8_Witness ==
    /\ lastAction.op = "input"
    /\ Len(messages) >= 3

\* C9 as claimed: export_chat_history on an empty transcript returns the
\* header and the separator and nothing else.
C9_EmptyExportIsHeaderOnly ==
    (lastAction.op = "export_history" /\ Len(messages) = 0) =>
        exported.text = ExportHeader(lastAction.now)

\* C9 amended: export_chat_history on an empty transcript returns the text
\* "No chat history to export", without header, separator or turn entry.
C9_EmptyExportIsNotice ==
    (lastAction.op = "export_history" /\ Len(messages) = 0) =>
        /\ exported.text = NoHistoryText
        /\ ~Contains(exported.text, ExportTitle)
        /\ ~Contains(exported.text, Repeat("=", 50))
        /\ ~Contains(exported.text, Repeat("-", 30))

\* C9 witness: export_chat_history was called on an empty transcript
C9_Witness ==
    /\ lastAction.op = "export_history"
    /\ Len(messages) = 0
    /\ exported.has

\* the transcript is one user turn followed by one assistant turn
OneExchange ==
    /\ Len(messages) = 2
    /\ messages[1].role = RoleUser
    /\ messages[2].role = RoleAssistant

\* text holds label1, sep, the first content and, after it, label2, sep, the
\* second content
HoldsBothInOrder(text, sep) ==
    LET first == <<"U", "S", "E", "R", ":">> \o sep \o messages[1].content
        second == <<"A", "S", "S", "I", "S", "T", "A", "N", "T", ":">> \o sep
                      \o messages[2].content
    IN  \E i \in 1..Len(text) : \E j \in (i + Len(first))..Len(text) :
            OccursAt(first, text, i) /\ OccursAt(second, text, j)

\* C10: the export of one user turn followed by one assistant turn holds the
\* content of both verbatim, the user's first, each right under its role
\* label - in the text of export_chat_history and in the download of the
\* Export Chat button.
C10_ExportHoldsBothTurns ==
    /\ (lastAction.op = "export_history" /\ OneExchange)
           => HoldsBothInOrder(exported.text, <<"\n">>)
    /\ (lastAction.op = "export" /\ OneExchange)
           => (download.has /\ HoldsBothInOrder(download.data, <<" ">>))

\* C10 witness: export_chat_history was called on one exchange with sources
C10_Witness ==
    /\ lastAction.op = "export_history"
    /\ OneExchange
    /\ messages[2].sources # <<>>
    /\ exported.has

\* the sources attached to a turn (none for a turn stored without any)
SourcesOfTurn(msg) == IF "sources" \in DOMAIN msg THEN msg.sources ELSE <<>>

\* text holds, for every turn of the transcript, its role label, its content
\* and every source attached to it
HoldsEveryTurn(text) ==
    \A i \in 1..Len(messages) :
        /\ Contains(text, Upper(messages[i].role) \o <<":">>)
        /\ Contains(text, messages[i].content)
        /\ \A k \in 1..Len(SourcesOfTurn(messages[i])) :
               Contains(text, SourcesOfTurn(messages[i])[k])

\* text carries the time of the export, in either form the page writes it
HoldsExportTime(text, now) ==
    Contains(text, StrftimeDashed(now)) \/ Contains(text, StrftimeCompact(now))

\* C11: the plain-text export of a transcript with turns - the download of
\* the Export Chat button as well as the text of export_chat_history - holds
\* for every turn its role label, its content and every source attached to
\* it, and carries the export time.
C11_ExportHoldsTurnsSourcesAndTime ==
    /\ (lastAction.op = "export" /\ Len(messages) > 0) =>
           /\ download.has
           /\ HoldsEveryTurn(download.data)
           /\ HoldsExportTime(download.data, lastAction.now)
    /\ (lastAction.op = "export_history" /\ Len(messages) > 0) =>
           /\ exported.has
           /\ HoldsEveryTurn(exported.text)
           /\ HoldsExportTime(exported.text, lastAction.now)

\* export_chat_history alone does hold all of it for a transcript with turns
C11_ExportHistoryHoldsAll ==
    (lastAction.op = "export_history" /\ Len(messages) > 0) =>
        /\ exported.has
        /\ HoldsEveryTurn(exported.text)
        /\ HoldsExportTime(exported.text, lastAction.now)

-----------------------------------------------------------------------------
(* Claims about the prompt selector, checked under SpecSelector.           *)

\* the marker text of the emergency template
EmergencyMarker ==
    <<"E", "M", "E", "R", "G", "E", "N", "C", "Y", " ", "P", "R", "O", "T",
      "O", "C", "O", "L", " ", "A", "C", "T", "I", "V", "A", "T", "E", "D">>

\* the title of the drug-interaction template
DrugMarker ==
    <<"P", "h", "a", "r", "m", "a", "c", "e", "u", "t", "i", "c", "a", "l",
      " ", "I", "n", "t", "e", "l", "l", "i", "g", "e", "n", "c", "e", " ",
      "M", "o", "d", "u", "l", "e">>

\* the title of the main template
MainMarker ==
    <<"A", "d", "v", "a", "n", "c", "e", "d", " ", "H", "e", "a", "l", "t",
      "h", "c", "a", "r", "e", " ", "I", "n", "t", "e", "l", "l", "i", "g",
      "e", "n", "c", "e">>

\* which of the three templates a text is, by the title it carries
TemplateKind(template) ==
    { k \in {"emergency", "drug", "main"} :
        Contains(template, CASE k = "emergency" -> EmergencyMarker
                             [] k = "drug" -> DrugMarker
                             [] OTHER -> MainMarker) }

\* C12: a chain built for category "emergency" holds the template with the
\* marker text EMERGENCY PROTOCOL ACTIVATED, one built for "drug" the
\* drug-interaction template, one built for "general" or for any other
\* category value the main template; and the template held has exactly the
\* two slots context and question, in its text and in its input_variables.
C12_PromptByCategory ==
    (lastCall.op = "create_retrieval_chain" /\ raised = "none") =>
        LET qt == lastCall.query_type
            p == chain.prompt
        IN  /\ TemplateKind(p.template) =
                   (IF qt = "emergency" THEN {"emergency"}
                    ELSE IF qt = "drug" THEN {"drug"}
                    ELSE {"main"})
            /\ SlotsIn(p.template) = {SlotContext, SlotQuestion}
            /\ Len(p.input_variables) = 2
            /\ { p.input_variables[i] : i \in 1..2 } = {SlotContext, SlotQuestion}

\* C12 witness: a chain was built for the category "error"
C12_Witness ==
    /\ lastCall.op = "create_retrieval_chain"
    /\ raised = "none"
    /\ lastCall.query_type = "error"
    /\ chain.built
    /\ Contains(chain.prompt.template, MainMarker)

-----------------------------------------------------------------------------
(* Claims about the orchestrator, checked under SpecOrchestrator.          *)

\* GROQ_API_KEY is unset or empty in this process
NoApiKey == groq_api_key \in {"absent", "empty"}

\* C13: in a process whose GROQ_API_KEY is unset or empty, every
\* construction - MediCoreAI(), create_medicore_ai, get_llm_chain - raises
\* the configuration error, and no MediCoreAI instance, no chain and no
\* envelope is ever obtained.
C13_NoKeyNoInstance ==
    NoApiKey =>
        /\ medicore = FALSE
        /\ chain = NoChain
        /\ envelope = NoEnvelope
        /\ lastCall.op \in {"MediCoreAI", "get_llm_chain"} => raised = "ValueError"
        /\ lastCall.op \in {"none", "MediCoreAI", "get_llm_chain"}

\* C13 witness: get_llm_chain was called with an empty key and raised
C13_Witness ==
    /\ groq_api_key = "empty"
    /\ lastCall.op = "get_llm_chain"
    /\ raised = "ValueError"
    /\ chain = NoChain

\* the last call was a process_query that returned an answer envelope
Answered ==
    /\ lastCall.op = "process_query"
    /\ envelope # NoEnvelope
    /\ ~IsErrorEnvelope(envelope)

\* the chain in hand was obtained in one of the three ways for this request:
\* get_chain with the request's question, get_chain without a question, or
\* get_llm_chain
ChainObtainedForRequest ==
    \/ chain.obtained_by = "get_llm_chain"
    \/ /\ chain.obtained_by = "get_chain"
       /\ chain.question \in {PyNone, lastCall.question}

\* C14: for every answered request whose chain was obtained in one of the
\* three ways, the prompt the executed chain was built with is the template
\* selected for the classification of the request's question, and the
\* query_type of the envelope is that classification.
C14_PromptMatchesClassification ==
    (Answered /\ ChainObtainedForRequest) =>
        LET qt == _detect_query_type(lastCall.question.v)
        IN  /\ chain.prompt = _get_prompt_by_type(qt)
            /\ envelope.query_type = qt

\* the part that does hold: with a chain from get_chain given the request's
\* own question, prompt and reported query_type agree with the classification
C14_SameQuestionMatches ==
    (Answered /\ chain.obtained_by = "get_chain"
              /\ chain.question = lastCall.question) =>
        LET qt == _detect_query_type(lastCall.question.v)
        IN  /\ chain.prompt = _get_prompt_by_type(qt)
            /\ envelope.query_type = qt

-----------------------------------------------------------------------------
(* Claims about the session counter, checked under Spec.                   *)

\* C15: between user actions message_count equals the number of turns in the
\* transcript; an input whose request fails raises both by exactly one, and
\* Clear Chat sets both to zero.
C15_CountIsTranscriptLength ==
    /\ [](message_count = Len(messages))
    /\ [][/\ (lastAction'.op = "input"
                /\ (lastAction'.outcome.raises
                      \/ lastAction'.outcome.status_code # 200))
             => /\ Len(messages') = Len(messages) + 1
                /\ message_count' = message_count + 1
          /\ lastAction'.op = "clear"
             => /\ Len(messages') = 0
                /\ message_count' = 0]_vars

\* C15 witness: a failed input came after a full exchange, and the counter
\* and the transcript both stand at three
C15_Witness ==
    /\ LastInputFailed
    /\ Len(messages) = 3
    /\ message_count = 3
    /\ messages[2].role = RoleAssistant

=============================================================================
